---- MODULE Spec2Model ----
(***************************************************************************)
(* Model of the conditional-select (CMUX) engine of                        *)
(* tfhe/src/integer/server_key/radix_parallel/cmux.rs and of the CRT       *)
(* scalar addition of tfhe/src/integer/server_key/crt/scalar_add_crt.rs.   *)
(*                                                                         *)
(* A block (shortint ciphertext) is a record                               *)
(*   [val, degree, message_modulus, carry_modulus, payload]                *)
(* val is the plaintext the block decrypts to (message and carry), degree  *)
(* the tracked upper bound, payload a symbolic name of the encrypted bits: *)
(* <<>> for a trivial (noiseless) ciphertext, a token for a client         *)
(* encryption, and a derivation ("pbs", "add", "mul", "not" in front of    *)
(* the operands' payloads) for what the server computed from it.  Two      *)
(* blocks are bit-identical iff the records are equal.                     *)
(***************************************************************************)
EXTENDS Integers, Sequences, FiniteSets, TLC

VARIABLES
    key,          \* the server key's parameters [message_modulus, carry_modulus]
    op,           \* the entry point called last ("none" after construction)
    outcome,      \* "none", "ok", "err" (CheckError returned) or "panic"
    condition,    \* the caller's selector (BooleanBlock)
    true_ct,      \* the caller's radix operand selected when the condition is 1
    false_ct,     \* the caller's radix operand selected when the condition is 0
    true_block,   \* the caller's BooleanBlock operands of the boolean CMUX
    false_block,
    true_value,   \* the plaintext scalars of the last call
    false_value,
    n_blocks,     \* the block count asked of scalar_if_then_else_parallelized
    ct,           \* the caller's CrtCiphertext [blocks, moduli]
    scalar,       \* the scalar of the last CRT call
    result,       \* the ciphertext returned by the last call (its blocks)
    pred,         \* the predicate of the last zero_out_if call, as a function
                  \* from the key's plaintext space to BOOLEAN (<<>> otherwise)
    lut_calls,    \* the lookup-table evaluations (bootstraps) made by the last
                  \* zero_out_if or scalar_if_then_else call (0 otherwise)
    join          \* the two tasks of a rayon::join in progress and the values
                  \* they own (NoJoin when no call is followed step by step)

vars == <<key, op, outcome, condition, true_ct, false_ct, true_block, false_block,
          true_value, false_value, n_blocks, ct, scalar, result, pred, lut_calls, join>>

cmuxVars == <<condition, true_ct, false_ct, true_block, false_block,
              true_value, false_value, n_blocks, pred, lut_calls, join>>

(***************************************************************************)
(* Bounds of the model.                                                    *)
(***************************************************************************)
\* radix operands have 0..MaxBlocks blocks
MaxBlocks == 2
\* the plaintext scalars of the CMUX calls range over 0..MaxScalar
MaxScalar == 5
\* the scalars added to the CRT operand range over 0..MaxCrtScalar
MaxCrtScalar == 5
\* a block of the CRT operand is refreshed (bootstrapped) at most MaxRefresh times
MaxRefresh == 1

(***************************************************************************)
(* Helpers.                                                                *)
(***************************************************************************)
Max(S) == CHOOSE m \in S : \A x \in S : x <= m

Min2(a, b) == IF a <= b THEN a ELSE b

RECURSIVE Pow(_, _)
Pow(b, e) == IF e = 0 THEN 1 ELSE b * Pow(b, e - 1)

\* u64::ilog2: the floor of the base-2 logarithm
RECURSIVE ilog2(_)
ilog2(x) == IF x <= 1 THEN 0 ELSE 1 + ilog2(x \div 2)

RECURSIVE Product(_)
Product(s) == IF s = <<>> THEN 1 ELSE Head(s) * Product(Tail(s))

Block(v, d, mm, cm, p) ==
    [val |-> v, degree |-> d, message_modulus |-> mm, carry_modulus |-> cm, payload |-> p]

\* the two closures of a rayon::join, named after the operand they own
Tasks == {"true_ct", "false_ct"}

\* A rayon::join in progress: kind is the call ("radix", "boolean"; "none",
\* "returned", "panicked" outside), pc[t] the position of closure t, ct[t] the
\* blocks it owns, todo[t] the blocks its parallel iterator has not processed
\* yet, combine_todo the blocks the code after the join has not combined yet,
\* overlapped whether a closure has taken a step while the other was midway.
NoJoin ==
    [kind |-> "none", pc |-> [t \in Tasks |-> "done"], ct |-> [t \in Tasks |-> <<>>],
     todo |-> [t \in Tasks |-> {}], combine_todo |-> {}, negated_cond |-> <<>>,
     overlapped |-> FALSE]

\* message_modulus * carry_modulus of the server key: the plaintext space of a block
Capacity(k) == k.message_modulus * k.carry_modulus

(***************************************************************************)
(* The shortint server key (self.key): block-level primitives.             *)
(***************************************************************************)
\* ct += scalar: a linear operation, the encrypted mask is untouched
unchecked_scalar_add_assign(b, s) ==
    [b EXCEPT !.val = @ + s, !.degree = @ + s]

\* the capacity predicate of scalar addition on one block
is_scalar_add_possible(k, degree, s) == degree + s < Capacity(k)

\* ct * scalar: linear, no bootstrap
unchecked_scalar_mul(b, s) ==
    [b EXCEPT !.val = @ * s, !.degree = @ * s,
              !.payload = IF @ = <<>> \/ s = 1 THEN @ ELSE <<"mul">> \o @]

\* lhs += rhs: linear, no bootstrap; adding a trivial zero changes no bit
unchecked_add_assign(lhs, rhs) ==
    [lhs EXCEPT !.val = @ + rhs.val, !.degree = @ + rhs.degree,
                !.payload = IF rhs.payload = <<>> THEN @
                            ELSE IF @ = <<>> THEN rhs.payload
                            ELSE <<"add">> \o @ \o <<"+">> \o rhs.payload]

\* the inputs of a lookup table: the key's plaintext space
LutInputs(k) == 0..(Capacity(k) - 1)

\* the bootstrap: evaluates the table acc (a function on the key's plaintext
\* space) on the block's plaintext, resets the degree to the table's largest
\* output and yields a new encryption
apply_lookup_table_assign(k, b, acc) ==
    [b EXCEPT !.val = acc[b.val % Capacity(k)],
              !.degree = Max({acc[x] : x \in DOMAIN acc}),
              !.payload = <<"pbs">> \o @]

\* the table that keeps message and carry
message_extract_assign_with_carry(k, b) ==
    apply_lookup_table_assign(k, b, [x \in LutInputs(k) |-> x])

\* keeps the message (the block's value modulo its own message modulus)
message_extract_assign(k, b) ==
    apply_lookup_table_assign(k, b, [x \in LutInputs(k) |-> x % b.message_modulus])

\* the bivariate bootstrap: evaluates the table acc (a function on pairs of
\* plaintexts) on the plaintexts of the two blocks; the degree becomes the
\* table's largest output over the message range
unchecked_apply_lookup_table_bivariate_assign(k, b, other, acc) ==
    LET msgs == 0..(k.message_modulus - 1) IN
    [b EXCEPT !.val = acc[<<b.val % Capacity(k), other.val % Capacity(k)>>],
              !.degree = Max({acc[<<l, r>>] : l \in msgs, r \in msgs}),
              !.payload = IF @ = <<>> /\ other.payload = <<>> THEN <<>>
                          ELSE <<"pbs">> \o @ \o <<"&">> \o other.payload]

\* degree < message_modulus: the block holds no pending carry
carry_is_empty(b) == b.degree < b.message_modulus

\* the negation of a boolean block: 1 - b, linear, of degree 1
boolean_bitnot(k, b) ==
    [b EXCEPT !.val = (Capacity(k) + 1 - (b.val % Capacity(k))) % Capacity(k),
              !.degree = 1,
              !.payload = IF @ = <<>> THEN @ ELSE <<"not">> \o @]

(***************************************************************************)
(* Radix ciphertexts: sequences of blocks, least significant digit first.  *)
(***************************************************************************)
block_carries_are_empty(c) == \A i \in DOMAIN c : carry_is_empty(c[i])

RECURSIVE WeightedSum(_, _)
WeightedSum(c, base) ==
    IF c = <<>> THEN 0 ELSE Head(c).val + base * WeightedSum(Tail(c), base)

\* the integer a radix ciphertext of key k decrypts to
DecryptRadix(k, c) ==
    WeightedSum(c, k.message_modulus) % Pow(k.message_modulus, Len(c))

\* digit i (from 1) of x in base b
DigitOf(x, b, i) == (x \div Pow(b, i - 1)) % b

\* full carry propagation: every block becomes the digit of the value, refreshed
full_propagate_parallelized(k, c) ==
    [i \in DOMAIN c |->
        [c[i] EXCEPT !.val = DigitOf(DecryptRadix(k, c), k.message_modulus, i),
                     !.degree = k.message_modulus - 1,
                     !.payload = IF @ = <<>> THEN @ ELSE <<"pbs">> \o @]]

\* every block becomes the trivial encryption of 0
create_trivial_zero_assign_radix(k, c) ==
    [i \in DOMAIN c |-> Block(0, 0, k.message_modulus, k.carry_modulus, <<>>)]

\* BlockDecomposer::with_block_count(value, bits, n).iter_as::<u64>(): block i
\* (from 1) is the i-th group of `bits` bits of the value
BlockDecomposer(value, bits, n) ==
    [i \in 1..n |-> (value \div Pow(2, bits * (i - 1))) % Pow(2, bits)]

(***************************************************************************)
(* cmux.rs                                                                 *)
(***************************************************************************)
\* the assertion at the entry of zero_out_if
zero_out_if_precondition(condition_block) ==
    condition_block.degree < condition_block.message_modulus

\* every block handed to the table, the blocks of degree 0 included
zero_out_if_lut_blocks_unfiltered(c, condition_block) ==
    IF condition_block.degree = 0 THEN {} ELSE DOMAIN c

\* the blocks of ct that zero_out_if hands to the bivariate table: none on the
\* short-circuit of a condition of degree 0, else those of non-zero degree
zero_out_if_lut_blocks(c, condition_block) ==
    IF condition_block.degree = 0 THEN {}
    ELSE {i \in DOMAIN c : c[i].degree # 0}

\* the table built from the predicate's negation
zero_out_if_inverted_lut(k, c, condition_block, predicate) ==
    IF condition_block.degree = 0
    THEN IF predicate[0] THEN create_trivial_zero_assign_radix(k, c) ELSE c
    ELSE [i \in DOMAIN c |->
            IF i \in zero_out_if_lut_blocks(c, condition_block)
            THEN unchecked_apply_lookup_table_bivariate_assign(k, c[i], condition_block,
                     [p \in LutInputs(k) \X LutInputs(k) |->
                         IF predicate[p[2]] THEN p[1] ELSE 0])
            ELSE c[i]]

\* the bivariate table of zero_out_if:
\* |block, condition| if predicate(condition) { 0 } else { block }
zero_out_if_lut(k, predicate) ==
    [p \in LutInputs(k) \X LutInputs(k) |-> IF predicate[p[2]] THEN 0 ELSE p[1]]

\* ct after zero_out_if(ct, condition_block, predicate); predicate is a
\* function from the key's plaintext space to BOOLEAN
zero_out_if(k, c, condition_block, predicate) ==
    IF condition_block.degree = 0
    THEN IF predicate[0] THEN create_trivial_zero_assign_radix(k, c) ELSE c
    ELSE [i \in DOMAIN c |->
            IF i \in zero_out_if_lut_blocks(c, condition_block)
            THEN unchecked_apply_lookup_table_bivariate_assign(k, c[i], condition_block,
                                                               zero_out_if_lut(k, predicate))
            ELSE c[i]]

\* a call of zero_out_if or of one of its wrappers: its outcome, ct as the
\* call leaves it, the predicate it used and the table evaluations it made
ZeroCall(o, c, predicate, n) ==
    [outcome |-> o, ct |-> c, predicate |-> predicate, lut_calls |-> n]

\* zero_out_if with its entry assertion
zero_out_if_call(k, c, condition_block, predicate) ==
    IF ~zero_out_if_precondition(condition_block) THEN ZeroCall("panic", c, predicate, 0)
    ELSE ZeroCall("ok", zero_out_if(k, c, condition_block, predicate), predicate,
                  Cardinality(zero_out_if_lut_blocks(c, condition_block)))

zero_out_if_condition_equals(k, c, condition_block, value) ==
    LET predicate == [x \in LutInputs(k) |-> x = value] IN
    IF ~(condition_block.degree < condition_block.message_modulus)
       \/ ~(value < condition_block.message_modulus)
    THEN ZeroCall("panic", c, predicate, 0)
    ELSE zero_out_if_call(k, c, condition_block, predicate)

zero_out_if_condition_is_false(k, c, condition_block) ==
    IF ~(condition_block.degree <= 1)
    THEN ZeroCall("panic", c, [x \in LutInputs(k) |-> x = 0], 0)
    ELSE zero_out_if_condition_equals(k, c, condition_block, 0)

\* the blocks of the returned ciphertext; the zip stops at the shorter operand
unchecked_programmable_if_then_else_parallelized(k, condition_block, t, f, predicate, do_clean_message) ==
    LET inverted_predicate == [x \in DOMAIN predicate |-> ~predicate[x]]
        zt == zero_out_if(k, t, condition_block, inverted_predicate)
        zf == zero_out_if(k, f, condition_block, predicate)
    IN  [i \in DOMAIN zt |->
            IF i > Len(zf) THEN zt[i]
            ELSE IF do_clean_message
                 THEN message_extract_assign(k, unchecked_add_assign(zt[i], zf[i]))
                 ELSE unchecked_add_assign(zt[i], zf[i])]

unchecked_if_then_else_parallelized_no_clean(k, c, t, f) ==
    unchecked_programmable_if_then_else_parallelized(k, c, t, f, [x \in LutInputs(k) |-> x = 1], FALSE)

unchecked_if_then_else_parallelized_swapped(k, c, t, f) ==
    unchecked_programmable_if_then_else_parallelized(k, c, t, f, [x \in LutInputs(k) |-> x = 0], TRUE)

unchecked_if_then_else_parallelized(k, c, t, f) ==
    unchecked_programmable_if_then_else_parallelized(k, c, t, f, [x \in LutInputs(k) |-> x = 1], TRUE)

\* a call's record: its outcome, the returned blocks and the caller's operands
\* as the call leaves them
Call(o, r, c, t, f) ==
    [outcome |-> o, result |-> r, condition |-> c, true_ct |-> t, false_ct |-> f]

\* the carry propagation done on the caller's operands themselves
if_then_else_parallelized_in_place(k, c, t, f) ==
    LET t1 == IF ~block_carries_are_empty(t) THEN full_propagate_parallelized(k, t) ELSE t
        f1 == IF ~block_carries_are_empty(f) THEN full_propagate_parallelized(k, f) ELSE f
    IN  IF ~zero_out_if_precondition(c) THEN Call("panic", <<>>, c, t1, f1)
        ELSE Call("ok", unchecked_if_then_else_parallelized(k, c, t1, f1), c, t1, f1)

\* ServerKeyDefaultCMux<&T, &T>::if_then_else_parallelized
if_then_else_parallelized(k, c, t, f) ==
    LET t1 == IF ~block_carries_are_empty(t) THEN full_propagate_parallelized(k, t) ELSE t
        f1 == IF ~block_carries_are_empty(f) THEN full_propagate_parallelized(k, f) ELSE f
    IN  IF ~zero_out_if_precondition(c) THEN Call("panic", <<>>, c, t, f)
        ELSE Call("ok", unchecked_if_then_else_parallelized(k, c, t1, f1), c, t, f)

\* every operand refreshed, whatever its carries
smart_if_then_else_parallelized_refresh_all(k, c, t, f) ==
    LET c1 == message_extract_assign(k, c)
        t1 == full_propagate_parallelized(k, t)
        f1 == full_propagate_parallelized(k, f)
    IN  IF ~zero_out_if_precondition(c1) THEN Call("panic", <<>>, c1, t1, f1)
        ELSE Call("ok", unchecked_if_then_else_parallelized(k, c1, t1, f1), c1, t1, f1)

smart_if_then_else_parallelized(k, c, t, f) ==
    LET c1 == IF ~carry_is_empty(c) THEN message_extract_assign(k, c) ELSE c
        t1 == IF ~block_carries_are_empty(t) THEN full_propagate_parallelized(k, t) ELSE t
        f1 == IF ~block_carries_are_empty(f) THEN full_propagate_parallelized(k, f) ELSE f
    IN  IF ~zero_out_if_precondition(c1) THEN Call("panic", <<>>, c1, t1, f1)
        ELSE Call("ok", unchecked_if_then_else_parallelized(k, c1, t1, f1), c1, t1, f1)

\* the assertion at the entry of unchecked_scalar_if_then_else_parallelized
unchecked_scalar_if_then_else_precondition(t) ==
    \A i \in DOMAIN t : t[i].degree * 2 < t[i].message_modulus * t[i].carry_modulus

\* the scalar decomposed in blocks of message_modulus bits
unchecked_scalar_if_then_else_parallelized_modulus_bits(k, c, t, false_val) ==
    LET luts == BlockDecomposer(false_val, k.message_modulus, Len(t))
    IN  [i \in 1..Min2(Len(t), Len(luts)) |->
            apply_lookup_table_assign(k,
                unchecked_add_assign(unchecked_scalar_mul(t[i], 2), c),
                [block_condition \in LutInputs(k) |->
                    IF block_condition % 2 = 1
                    THEN (block_condition \div 2) % k.message_modulus
                    ELSE luts[i]])]

\* the blocks of the returned ciphertext: block i is the table of digit i of
\* the scalar applied to 2 * block + condition
unchecked_scalar_if_then_else_parallelized(k, c, t, false_val) ==
    LET luts == BlockDecomposer(false_val, ilog2(k.message_modulus), Len(t))
    IN  [i \in 1..Min2(Len(t), Len(luts)) |->
            apply_lookup_table_assign(k,
                unchecked_add_assign(unchecked_scalar_mul(t[i], 2), c),
                [block_condition \in LutInputs(k) |->
                    IF block_condition % 2 = 1
                    THEN (block_condition \div 2) % k.message_modulus
                    ELSE luts[i]])]

\* ServerKeyDefaultCMux<&RadixCiphertext, Scalar>::if_then_else_parallelized
\* (the false_ct field of the record is not used)
if_then_else_parallelized_ct_scalar(k, c, t, false_val) ==
    LET t1 == IF block_carries_are_empty(t) THEN t ELSE full_propagate_parallelized(k, t)
    IN  IF ~unchecked_scalar_if_then_else_precondition(t1) THEN Call("panic", <<>>, c, t, <<>>)
        ELSE Call("ok", unchecked_scalar_if_then_else_parallelized(k, c, t1, false_val),
                  c, t, <<>>)

\* the selector passed on as it is
if_then_else_parallelized_scalar_ct_not_inverted(k, c, true_val, f) ==
    LET r == if_then_else_parallelized_ct_scalar(k, c, f, true_val)
    IN  Call(r.outcome, r.result, c, <<>>, r.true_ct)

\* ServerKeyDefaultCMux<Scalar, &RadixCiphertext>::if_then_else_parallelized
\* (the true_ct field of the record is not used)
if_then_else_parallelized_scalar_ct(k, c, true_val, f) ==
    LET inverted_condition == boolean_bitnot(k, c)
        r == if_then_else_parallelized_ct_scalar(k, inverted_condition, f, true_val)
    IN  Call(r.outcome, r.result, c, <<>>, r.true_ct)

\* the tables of the boolean CMUX: the value bit kept iff the condition bit
\* (bit 1 of 2 * cond + value) is set, and the parity of the sum
zero_lut(k) == [x \in LutInputs(k) |-> IF (x \div 2) % 2 = 1 THEN x % 2 ELSE 0]

clean_lut(k) == [x \in LutInputs(k) |-> x % 2]

BoolCall(o, r, c, t, f) ==
    [outcome |-> o, result |-> r, condition |-> c, true_block |-> t, false_block |-> f]

\* the second task reading the selector instead of its negation
if_then_else_parallelized_boolean_same_cond(k, c, t, f) ==
    LET lhs == apply_lookup_table_assign(k,
                   unchecked_add_assign(unchecked_scalar_mul(c, 2), t), zero_lut(k))
        rhs == apply_lookup_table_assign(k,
                   unchecked_add_assign(unchecked_scalar_mul(c, 2), f), zero_lut(k))
    IN  IF ~(ilog2(Capacity(k)) >= 2) THEN BoolCall("panic", <<>>, c, t, f)
        ELSE BoolCall("ok",
                 <<apply_lookup_table_assign(k, unchecked_add_assign(lhs, rhs),
                                             clean_lut(k))>>, c, t, f)

\* ServerKeyDefaultCMux<&BooleanBlock, &BooleanBlock>::if_then_else_parallelized
if_then_else_parallelized_boolean(k, c, t, f) ==
    LET negated_cond == boolean_bitnot(k, c)
        lhs == apply_lookup_table_assign(k,
                   unchecked_add_assign(unchecked_scalar_mul(c, 2), t), zero_lut(k))
        rhs == apply_lookup_table_assign(k,
                   unchecked_add_assign(unchecked_scalar_mul(negated_cond, 2), f), zero_lut(k))
    IN  IF ~(ilog2(Capacity(k)) >= 2) THEN BoolCall("panic", <<>>, c, t, f)
        ELSE BoolCall("ok",
                 <<apply_lookup_table_assign(k, unchecked_add_assign(lhs, rhs),
                                             clean_lut(k))>>, c, t, f)

\* a per-block function of scalar_if_then_else_parallelized: the closure
\* |condition| if condition == 1 { true_scalar_block } else { false_scalar_block }
SelectFn(true_scalar_block, false_scalar_block) ==
    [t |-> true_scalar_block, f |-> false_scalar_block]

ApplyFn(fn, x) == IF x = 1 THEN fn.t ELSE fn.f

\* slice::chunks: consecutive groups of `size` elements, the last one shorter
Chunks(seq, size) ==
    [g \in 1..((Len(seq) + size - 1) \div size) |->
        SubSeq(seq, (g - 1) * size + 1, Min2(g * size, Len(seq)))]

RECURSIVE Flatten(_)
Flatten(seqs) == IF seqs = <<>> THEN <<>> ELSE Head(seqs) \o Flatten(Tail(seqs))

\* the many-output bootstrap: one block per function of the table, each the
\* function evaluated on the block's plaintext
apply_many_lookup_table(k, b, fns) ==
    [j \in DOMAIN fns |->
        [b EXCEPT !.val = ApplyFn(fns[j], b.val % Capacity(k)),
                  !.degree = Max({fns[j].t, fns[j].f}),
                  !.payload = IF @ = <<>> THEN @ ELSE <<"pbs", ToString(j)>> \o @]]

\* the function buffer not cleared between two chunks
scalar_if_then_else_parallelized_no_clear(k, c, true_val, false_val, n) ==
    LET true_iter == BlockDecomposer(true_val, ilog2(k.message_modulus), n)
        false_iter == BlockDecomposer(false_val, ilog2(k.message_modulus), n)
        max_num_many_luts == Capacity(k) \div 2
        owned_fn_buffer == [i \in 1..n |-> SelectFn(true_iter[i], false_iter[i])]
        chunks == Chunks(owned_fn_buffer, max_num_many_luts)
        luts == [g \in DOMAIN chunks |-> Flatten(SubSeq(chunks, 1, g))]
    IN  Flatten([g \in DOMAIN luts |-> apply_many_lookup_table(k, c, luts[g])])

\* the per-block functions of scalar_if_then_else_parallelized, in block order
owned_fn_buffer(k, true_val, false_val, n) ==
    LET true_iter == BlockDecomposer(true_val, ilog2(k.message_modulus), n)
        false_iter == BlockDecomposer(false_val, ilog2(k.message_modulus), n)
    IN  [i \in 1..n |-> SelectFn(true_iter[i], false_iter[i])]

\* every function packed in one table
scalar_if_then_else_luts_unchunked(k, true_val, false_val, n) ==
    IF n = 0 THEN <<>> ELSE <<owned_fn_buffer(k, true_val, false_val, n)>>

\* the many-output tables built by scalar_if_then_else_parallelized: one per
\* chunk of max_num_many_luts functions
scalar_if_then_else_luts(k, true_val, false_val, n) ==
    LET max_num_many_luts == Capacity(k) \div 2
    IN  Chunks(owned_fn_buffer(k, true_val, false_val, n), max_num_many_luts)

\* the blocks of the returned ciphertext
scalar_if_then_else_parallelized(k, c, true_val, false_val, n) ==
    LET luts == scalar_if_then_else_luts(k, true_val, false_val, n)
    IN  Flatten([g \in DOMAIN luts |-> apply_many_lookup_table(k, c, luts[g])])

(***************************************************************************)
(* CRT ciphertexts: [blocks, moduli], block i holding the residue modulo   *)
(* moduli[i].                                                              *)
(***************************************************************************)
\* the residue channel i decrypts to
DecryptChannel(c, i) == c.blocks[i].val % c.moduli[i]

\* Chinese-remainder reconstruction: the x below the basis product with these residues
DecryptCrt(c) ==
    CHOOSE x \in 0..(Product(c.moduli) - 1) :
        \A i \in DOMAIN c.moduli : x % c.moduli[i] = DecryptChannel(c, i)

\* the client's encryption of x over a basis
EncryptCrt(k, basis, x) ==
    [blocks |-> [i \in DOMAIN basis |->
                    Block(x % basis[i], basis[i] - 1, basis[i],
                          Capacity(k) \div basis[i], <<"crt", ToString(i)>>)],
     moduli |-> basis]

\* refresh of every channel
full_extract_message_assign(k, c) ==
    [c EXCEPT !.blocks = [i \in DOMAIN c.blocks |-> message_extract_assign(k, c.blocks[i])]]

\* `scalar_i as u8`
AsU8(x) == x % 256

unchecked_crt_scalar_add_assign_unreduced(c, s) ==
    [c EXCEPT !.blocks =
        [i \in DOMAIN c.blocks |->
            IF i <= Len(c.moduli)
            THEN unchecked_scalar_add_assign(c.blocks[i], AsU8(s))
            ELSE c.blocks[i]]]

unchecked_crt_scalar_add_assign(c, s) ==
    [c EXCEPT !.blocks =
        [i \in DOMAIN c.blocks |->
            IF i <= Len(c.moduli)
            THEN unchecked_scalar_add_assign(c.blocks[i], AsU8(s % c.moduli[i]))
            ELSE c.blocks[i]]]

unchecked_crt_scalar_add(c, s) == unchecked_crt_scalar_add_assign(c, s)

\* the scalar handed to every channel as it is
is_crt_scalar_add_possible_unreduced(k, c, s) ==
    \A i \in 1..Min2(Len(c.blocks), Len(c.moduli)) :
        is_scalar_add_possible(k, c.blocks[i].degree, AsU8(s))

\* Ok (TRUE) iff the scalar addition is possible on every channel
is_crt_scalar_add_possible(k, c, s) ==
    \A i \in 1..Min2(Len(c.blocks), Len(c.moduli)) :
        is_scalar_add_possible(k, c.blocks[i].degree, AsU8(s % c.moduli[i]))

\* [outcome, result]: the new ciphertext, or the CheckError
checked_crt_scalar_add(k, c, s) ==
    IF ~is_crt_scalar_add_possible(k, c, s)
    THEN [outcome |-> "err", result |-> <<>>]
    ELSE [outcome |-> "ok", result |-> unchecked_crt_scalar_add(c, s).blocks]

\* a check-and-add per channel, stopping at the first channel that fails
RECURSIVE AddUntilFailure(_, _, _, _)
AddUntilFailure(k, c, s, i) ==
    IF i > Min2(Len(c.blocks), Len(c.moduli)) THEN [outcome |-> "ok", ct |-> c]
    ELSE IF ~is_scalar_add_possible(k, c.blocks[i].degree, AsU8(s % c.moduli[i]))
         THEN [outcome |-> "err", ct |-> c]
         ELSE AddUntilFailure(k,
                [c EXCEPT !.blocks[i] =
                    unchecked_scalar_add_assign(@, AsU8(s % c.moduli[i]))], s, i + 1)

checked_crt_scalar_add_assign_interleaved(k, c, s) == AddUntilFailure(k, c, s, 1)

\* [outcome, ct]: ct after the call
checked_crt_scalar_add_assign(k, c, s) ==
    IF ~is_crt_scalar_add_possible(k, c, s)
    THEN [outcome |-> "err", ct |-> c]
    ELSE [outcome |-> "ok", ct |-> unchecked_crt_scalar_add_assign(c, s)]

\* [outcome, ct, result]: ct after the call (refreshed when the first check
\* fails) and the new ciphertext; "panic" is the unwrap of the second check
smart_crt_scalar_add(k, c, s) ==
    LET c1 == IF ~is_crt_scalar_add_possible(k, c, s)
              THEN full_extract_message_assign(k, c) ELSE c
    IN  IF ~is_crt_scalar_add_possible(k, c1, s)
        THEN [outcome |-> "panic", ct |-> c1, result |-> <<>>]
        ELSE [outcome |-> "ok", ct |-> c1,
              result |-> unchecked_crt_scalar_add_assign(c1, s).blocks]

\* [outcome, ct]
smart_crt_scalar_add_assign(k, c, s) ==
    LET c1 == IF ~is_crt_scalar_add_possible(k, c, s)
              THEN full_extract_message_assign(k, c) ELSE c
    IN  IF ~is_crt_scalar_add_possible(k, c1, s)
        THEN [outcome |-> "panic", ct |-> c1]
        ELSE [outcome |-> "ok", ct |-> unchecked_crt_scalar_add_assign(c1, s)]

(***************************************************************************)
(* The CRT specification: a caller holding one CrtCiphertext calls the     *)
(* entry points of scalar_add_crt.rs on it, in any order.                  *)
(***************************************************************************)
\* server-key parameters (message_modulus, carry_modulus) of the CRT runs
CrtKeys == {[message_modulus |-> 2, carry_modulus |-> 2],
            [message_modulus |-> 2, carry_modulus |-> 4]}

\* pairwise-coprime bases whose moduli fit the key's plaintext space
CrtBases(k) == {b \in {<<2, 3>>, <<3, 2>>, <<3>>} : \A i \in DOMAIN b : b[i] < Capacity(k)}

NoCrt == [blocks |-> <<>>, moduli |-> <<>>]
NoBlock == Block(0, 0, 1, 1, <<>>)

InitCrt ==
    /\ key \in CrtKeys
    /\ \E basis \in CrtBases(key) : \E x \in 0..(Product(basis) - 1) :
           ct = EncryptCrt(key, basis, x)
    /\ op = "none" /\ outcome = "none" /\ scalar = 0 /\ result = <<>>
    /\ condition = NoBlock /\ true_ct = <<>> /\ false_ct = <<>>
    /\ true_block = NoBlock /\ false_block = NoBlock
    /\ true_value = 0 /\ false_value = 0 /\ n_blocks = 0
    /\ pred = <<>> /\ lut_calls = 0 /\ join = NoJoin

\* a refresh is still within the model's bound
RefreshBounded(c) ==
    \A i \in DOMAIN c.blocks : Len(c.blocks[i].payload) < 2 + MaxRefresh

\* the caller of an unchecked operation has validated the capacity
UncheckedCrtScalarAdd(s) ==
    /\ is_crt_scalar_add_possible(key, ct, s)
    /\ op' = "unchecked_crt_scalar_add" /\ outcome' = "ok" /\ scalar' = s
    /\ result' = unchecked_crt_scalar_add(ct, s).blocks
    /\ UNCHANGED <<key, ct, cmuxVars>>

UncheckedCrtScalarAddAssign(s) ==
    /\ is_crt_scalar_add_possible(key, ct, s)
    /\ op' = "unchecked_crt_scalar_add_assign" /\ outcome' = "ok" /\ scalar' = s
    /\ ct' = unchecked_crt_scalar_add_assign(ct, s)
    /\ result' = <<>>
    /\ UNCHANGED <<key, cmuxVars>>

CheckedCrtScalarAdd(s) ==
    LET r == checked_crt_scalar_add(key, ct, s) IN
    /\ op' = "checked_crt_scalar_add" /\ outcome' = r.outcome /\ scalar' = s
    /\ result' = r.result
    /\ UNCHANGED <<key, ct, cmuxVars>>

CheckedCrtScalarAddAssign(s) ==
    LET r == checked_crt_scalar_add_assign(key, ct, s) IN
    /\ op' = "checked_crt_scalar_add_assign" /\ outcome' = r.outcome /\ scalar' = s
    /\ ct' = r.ct
    /\ result' = <<>>
    /\ UNCHANGED <<key, cmuxVars>>

SmartCrtScalarAdd(s) ==
    LET r == smart_crt_scalar_add(key, ct, s) IN
    /\ is_crt_scalar_add_possible(key, ct, s) \/ RefreshBounded(ct)
    /\ op' = "smart_crt_scalar_add" /\ outcome' = r.outcome /\ scalar' = s
    /\ ct' = r.ct
    /\ result' = r.result
    /\ UNCHANGED <<key, cmuxVars>>

SmartCrtScalarAddAssign(s) ==
    LET r == smart_crt_scalar_add_assign(key, ct, s) IN
    /\ is_crt_scalar_add_possible(key, ct, s) \/ RefreshBounded(ct)
    /\ op' = "smart_crt_scalar_add_assign" /\ outcome' = r.outcome /\ scalar' = s
    /\ ct' = r.ct
    /\ result' = <<>>
    /\ UNCHANGED <<key, cmuxVars>>

\* the predicate called on its own: ct is borrowed immutably
IsCrtScalarAddPossible(s) ==
    /\ op' = "is_crt_scalar_add_possible" /\ scalar' = s
    /\ outcome' = IF is_crt_scalar_add_possible(key, ct, s) THEN "ok" ELSE "err"
    /\ result' = <<>>
    /\ UNCHANGED <<key, ct, cmuxVars>>

NextCrt ==
    \E s \in 0..MaxCrtScalar :
        \/ IsCrtScalarAddPossible(s)
        \/ UncheckedCrtScalarAdd(s)
        \/ UncheckedCrtScalarAddAssign(s)
        \/ CheckedCrtScalarAdd(s)
        \/ CheckedCrtScalarAddAssign(s)
        \/ SmartCrtScalarAdd(s)
        \/ SmartCrtScalarAddAssign(s)

SpecCrt == InitCrt /\ [][NextCrt]_vars

(***************************************************************************)
(* The CMUX specification: a caller holding a selector and operands (as    *)
(* the client encrypted them) calls the CMUX entry points on them.         *)
(***************************************************************************)
\* server-key parameters (message_modulus, carry_modulus) of the CMUX runs
CmuxKeys == {[message_modulus |-> 2, carry_modulus |-> 1],
             [message_modulus |-> 2, carry_modulus |-> 2],
             [message_modulus |-> 4, carry_modulus |-> 4]}

\* the trivial encryption of false / 0: what a caller holds before any encryption
TrivialZero(k) == Block(0, 0, k.message_modulus, k.carry_modulus, <<>>)

\* [val, degree] of the selectors: a trivial false, encryptions of 0 and 1, and
\* (when the key has carry space) a selector whose carry is not empty
ConditionDomain(k) ==
    {Block(0, 0, k.message_modulus, k.carry_modulus, <<>>),
     Block(0, 1, k.message_modulus, k.carry_modulus, <<"condition">>),
     Block(1, 1, k.message_modulus, k.carry_modulus, <<"condition">>)}
    \cup (IF k.carry_modulus > 1
          THEN {Block(1, k.message_modulus, k.message_modulus, k.carry_modulus,
                      <<"condition">>)}
          ELSE {})

\* <<val, degree>> of the blocks of the operands: a block known to be zero, clean
\* blocks, and (when the key has carry space) blocks with a pending carry
TrueBlockDomain(k) ==
    {<<0, 0>>, <<k.message_modulus - 1, k.message_modulus - 1>>}
    \cup (IF k.carry_modulus > 1
          THEN {<<Capacity(k) - 1, Capacity(k) - 1>>, <<k.message_modulus, Capacity(k) - 1>>}
          ELSE {})

FalseBlockDomain(k) ==
    {<<0, k.message_modulus - 1>>, <<1, k.message_modulus - 1>>}
    \cup (IF k.carry_modulus > 1
          THEN {<<k.message_modulus, k.message_modulus>>}
          ELSE {})

\* the radix ciphertexts of n blocks over a block domain, encrypted under a name
RadixDomain(k, n, dom, name) ==
    {[i \in 1..n |-> Block(vd[i][1], vd[i][2], k.message_modulus, k.carry_modulus,
                           <<name, ToString(i)>>)] : vd \in [1..n -> dom]}

\* the encryptions of the booleans
BooleanDomain(k, name) ==
    {Block(b, 1, k.message_modulus, k.carry_modulus, <<name>>) : b \in {0, 1}}

Init ==
    /\ key \in CmuxKeys
    /\ op = "none" /\ outcome = "none" /\ result = <<>>
    /\ condition = TrivialZero(key) /\ true_ct = <<>> /\ false_ct = <<>>
    /\ true_block = TrivialZero(key) /\ false_block = TrivialZero(key)
    /\ true_value = 0 /\ false_value = 0 /\ n_blocks = 0
    /\ pred = <<>> /\ lut_calls = 0 /\ join = NoJoin
    /\ ct = NoCrt /\ scalar = 0

\* the caller receives, once, a selector and two radix operands; nothing in
\* the types makes the two operands have the same number of blocks
EncryptRadix ==
    /\ op = "none"
    /\ \E nt \in 0..MaxBlocks, nf \in 0..MaxBlocks :
          /\ condition' \in ConditionDomain(key)
          /\ true_ct' \in RadixDomain(key, nt, TrueBlockDomain(key), "true_ct")
          /\ false_ct' \in RadixDomain(key, nf, FalseBlockDomain(key), "false_ct")
    /\ true_block' = TrivialZero(key) /\ false_block' = TrivialZero(key)
    /\ op' = "encrypt" /\ outcome' = "none" /\ result' = <<>>
    /\ true_value' = 0 /\ false_value' = 0
    /\ UNCHANGED <<key, n_blocks, ct, scalar, pred, lut_calls, join>>

\* the caller receives, once, a selector and two boolean operands
EncryptBoolean ==
    /\ op = "none"
    /\ condition' \in ConditionDomain(key)
    /\ true_block' \in BooleanDomain(key, "true_ct")
    /\ false_block' \in BooleanDomain(key, "false_ct")
    /\ true_ct' = <<>> /\ false_ct' = <<>>
    /\ op' = "encrypt" /\ outcome' = "none" /\ result' = <<>>
    /\ true_value' = 0 /\ false_value' = 0
    /\ UNCHANGED <<key, n_blocks, ct, scalar, pred, lut_calls, join>>

\* The calls explored: a first call on the operands as encrypted, or a call that
\* follows a smart call (the one entry point that rewrites its operands).
CallEnabled == op \in {"none", "encrypt", "smart_if_then_else_parallelized"}

\* the effect of a ciphertext/ciphertext call on the caller's state
RadixCallDone(name, r) ==
    /\ CallEnabled
    /\ op' = name /\ outcome' = r.outcome /\ result' = r.result
    /\ condition' = r.condition /\ true_ct' = r.true_ct /\ false_ct' = r.false_ct
    /\ true_value' = 0 /\ false_value' = 0
    /\ UNCHANGED <<key, true_block, false_block, n_blocks, ct, scalar, pred, lut_calls, join>>

IfThenElse ==
    RadixCallDone("if_then_else_parallelized",
                  if_then_else_parallelized(key, condition, true_ct, false_ct))

\* the aliases select_parallelized and cmux_parallelized
Select ==
    RadixCallDone("select_parallelized",
                  if_then_else_parallelized(key, condition, true_ct, false_ct))

Cmux ==
    RadixCallDone("cmux_parallelized",
                  if_then_else_parallelized(key, condition, true_ct, false_ct))

\* the unchecked tier, called on the operands as they are
UncheckedIfThenElse ==
    RadixCallDone("unchecked_if_then_else_parallelized",
                  IF ~zero_out_if_precondition(condition)
                  THEN Call("panic", <<>>, condition, true_ct, false_ct)
                  ELSE Call("ok",
                            unchecked_if_then_else_parallelized(key, condition, true_ct, false_ct),
                            condition, true_ct, false_ct))

SmartIfThenElse ==
    RadixCallDone("smart_if_then_else_parallelized",
                  smart_if_then_else_parallelized(key, condition, true_ct, false_ct))

IfThenElseCtScalar(v) ==
    LET r == if_then_else_parallelized_ct_scalar(key, condition, true_ct, v) IN
    /\ CallEnabled
    /\ op' = "if_then_else_parallelized_ct_scalar"
    /\ outcome' = r.outcome /\ result' = r.result
    /\ condition' = r.condition /\ true_ct' = r.true_ct
    /\ true_value' = 0 /\ false_value' = v
    /\ UNCHANGED <<key, false_ct, true_block, false_block, n_blocks, ct, scalar, pred, lut_calls, join>>

IfThenElseScalarCt(v) ==
    LET r == if_then_else_parallelized_scalar_ct(key, condition, v, false_ct) IN
    /\ CallEnabled
    /\ op' = "if_then_else_parallelized_scalar_ct"
    /\ outcome' = r.outcome /\ result' = r.result
    /\ condition' = r.condition /\ false_ct' = r.false_ct
    /\ true_value' = v /\ false_value' = 0
    /\ UNCHANGED <<key, true_ct, true_block, false_block, n_blocks, ct, scalar, pred, lut_calls, join>>

IfThenElseBoolean ==
    LET r == if_then_else_parallelized_boolean(key, condition, true_block, false_block) IN
    /\ CallEnabled
    /\ op' = "if_then_else_parallelized_boolean"
    /\ outcome' = r.outcome /\ result' = r.result
    /\ condition' = r.condition /\ true_block' = r.true_block /\ false_block' = r.false_block
    /\ true_value' = 0 /\ false_value' = 0
    /\ UNCHANGED <<key, true_ct, false_ct, n_blocks, ct, scalar, pred, lut_calls, join>>

Next ==
    \/ EncryptRadix
    \/ EncryptBoolean
    \/ IfThenElse
    \/ Select
    \/ Cmux
    \/ UncheckedIfThenElse
    \/ SmartIfThenElse
    \/ \E v \in 0..MaxScalar : IfThenElseCtScalar(v)
    \/ \E v \in 0..MaxScalar : IfThenElseScalarCt(v)
    \/ IfThenElseBoolean

Spec == Init /\ [][Next]_vars

(***************************************************************************)
(* The scalar/scalar specification: a caller holding a selector asks for   *)
(* the selection between two plaintext scalars over n blocks.              *)
(***************************************************************************)
InitScalar ==
    /\ key \in CmuxKeys
    /\ condition \in ConditionDomain(key)
    /\ op = "none" /\ outcome = "none" /\ result = <<>>
    /\ true_ct = <<>> /\ false_ct = <<>>
    /\ true_block = TrivialZero(key) /\ false_block = TrivialZero(key)
    /\ true_value = 0 /\ false_value = 0 /\ n_blocks = 0
    /\ pred = <<>> /\ lut_calls = 0 /\ join = NoJoin
    /\ ct = NoCrt /\ scalar = 0

ScalarCallDone(name, t, f, n) ==
    /\ CallEnabled
    /\ op' = name /\ outcome' = "ok"
    /\ result' = scalar_if_then_else_parallelized(key, condition, t, f, n)
    /\ lut_calls' = Len(scalar_if_then_else_luts(key, t, f, n))
    /\ true_value' = t /\ false_value' = f /\ n_blocks' = n
    /\ UNCHANGED <<key, condition, true_ct, false_ct, true_block, false_block, ct, scalar, pred, join>>

ScalarIfThenElse(t, f, n) == ScalarCallDone("scalar_if_then_else_parallelized", t, f, n)

ScalarCmux(t, f, n) == ScalarCallDone("scalar_cmux_parallelized", t, f, n)

ScalarSelect(t, f, n) == ScalarCallDone("scalar_select_parallelized", t, f, n)

NextScalar ==
    \E t \in 0..MaxScalar, f \in 0..MaxScalar, n \in 0..(MaxBlocks + 1) :
        \/ ScalarIfThenElse(t, f, n)
        \/ ScalarCmux(t, f, n)
        \/ ScalarSelect(t, f, n)

SpecScalar == InitScalar /\ [][NextScalar]_vars

(***************************************************************************)
(* The zero_out_if specification: a caller holding a condition block and a *)
(* radix ciphertext (true_ct, without pending carry) calls zero_out_if or  *)
(* one of its wrappers on it, once.                                        *)
(***************************************************************************)
\* the condition blocks: every (value, degree) with value <= degree below the
\* message modulus, the degree-0 ones trivial or encrypted, and (when the key
\* has carry space) one whose degree fails the entry assertion
ZeroConditionDomain(k) ==
    {b \in {Block(v, d, k.message_modulus, k.carry_modulus, <<"condition">>) :
                v \in 0..(k.message_modulus - 1), d \in 0..(k.message_modulus - 1)} :
        b.val <= b.degree}
    \cup {TrivialZero(k)}
    \cup (IF k.carry_modulus > 1
          THEN {Block(1, k.message_modulus, k.message_modulus, k.carry_modulus,
                      <<"condition">>)}
          ELSE {})

\* <<val, degree>> of the blocks of ct: carries are empty
ZeroBlockDomain(k) ==
    {<<0, 0>>, <<0, k.message_modulus - 1>>, <<1, k.message_modulus - 1>>,
     <<k.message_modulus - 1, k.message_modulus - 1>>}

\* the predicates: one per set of messages it holds on, and the one that
\* holds on the whole plaintext space
PredicateDomain(k) ==
    {[x \in LutInputs(k) |-> x \in S] : S \in SUBSET (0..(k.message_modulus - 1))}
    \cup {[x \in LutInputs(k) |-> TRUE]}

InitZero ==
    /\ key \in CmuxKeys
    /\ condition \in ZeroConditionDomain(key)
    /\ \E n \in 0..MaxBlocks :
          true_ct \in RadixDomain(key, n, ZeroBlockDomain(key), "ct")
                      \cup {create_trivial_zero_assign_radix(key, [i \in 1..n |-> 0])}
    /\ op = "none" /\ outcome = "none" /\ result = <<>>
    /\ false_ct = <<>>
    /\ true_block = TrivialZero(key) /\ false_block = TrivialZero(key)
    /\ true_value = 0 /\ false_value = 0 /\ n_blocks = 0
    /\ pred = <<>> /\ lut_calls = 0 /\ join = NoJoin
    /\ ct = NoCrt /\ scalar = 0

\* the effect of a zero_out_if call on the caller's state: ct is rewritten in place
ZeroCallDone(name, r) ==
    /\ op = "none"
    /\ op' = name /\ outcome' = r.outcome
    /\ true_ct' = r.ct /\ pred' = r.predicate /\ lut_calls' = r.lut_calls
    /\ UNCHANGED <<key, condition, false_ct, true_block, false_block, true_value,
                   false_value, n_blocks, ct, scalar, result, join>>

ZeroOutIf(p) == ZeroCallDone("zero_out_if", zero_out_if_call(key, true_ct, condition, p))

ZeroOutIfConditionEquals(value) ==
    ZeroCallDone("zero_out_if_condition_equals",
                 zero_out_if_condition_equals(key, true_ct, condition, value))

ZeroOutIfConditionIsFalse ==
    ZeroCallDone("zero_out_if_condition_is_false",
                 zero_out_if_condition_is_false(key, true_ct, condition))

NextZero ==
    \/ \E p \in PredicateDomain(key) : ZeroOutIf(p)
    \/ \E value \in 0..key.message_modulus : ZeroOutIfConditionEquals(value)
    \/ ZeroOutIfConditionIsFalse

SpecZero == InitZero /\ [][NextZero]_vars

(***************************************************************************)
(* The join specification: if_then_else_parallelized on radix operands and *)
(* on boolean operands followed step by step.  The two closures handed to  *)
(* rayon::join advance in any interleaving, the blocks of a parallel       *)
(* iterator are processed in any order, and the code after the join runs   *)
(* once rayon::join has returned.                                          *)
(***************************************************************************)
\* the other closure
Other(t) == IF t = "true_ct" THEN "false_ct" ELSE "true_ct"

\* rayon::join(a, b) returns the two results: both closures have returned
join_returned_first(j) == j.pc["true_ct"] = "done"

join_returned(j) == j.pc["true_ct"] = "done" /\ j.pc["false_ct"] = "done"

\* the predicate a closure hands to zero_out_if: inverted_predicate for the
\* true operand, predicate (x == 1) for the false one
join_predicate(k, t) ==
    IF t = "true_ct" THEN [x \in LutInputs(k) |-> ~(x = 1)]
    ELSE [x \in LutInputs(k) |-> x = 1]

\* a closure is between its first and its last step
Midway(j, t) == j.pc[t] \notin {"start", "mul", "done"}

\* <<val, degree>> of the blocks of the operands of the runs followed step by step
JoinTrueBlockDomain(k) ==
    {<<0, 0>>, <<k.message_modulus - 1, k.message_modulus - 1>>}
    \cup (IF k.carry_modulus > 1 THEN {<<k.message_modulus, Capacity(k) - 1>>} ELSE {})

JoinFalseBlockDomain(k) == {<<0, k.message_modulus - 1>>, <<1, k.message_modulus - 1>>}

InitJoin ==
    /\ key \in CmuxKeys
    /\ condition \in ConditionDomain(key)
    /\ \/ /\ \E n \in 0..MaxBlocks :
                /\ true_ct \in RadixDomain(key, n, JoinTrueBlockDomain(key), "true_ct")
                /\ false_ct \in RadixDomain(key, n, JoinFalseBlockDomain(key), "false_ct")
          /\ true_block = TrivialZero(key) /\ false_block = TrivialZero(key)
       \/ /\ true_ct = <<>> /\ false_ct = <<>>
          /\ true_block \in BooleanDomain(key, "true_ct")
          /\ false_block \in BooleanDomain(key, "false_ct")
    /\ op = "none" /\ outcome = "none" /\ result = <<>>
    /\ true_value = 0 /\ false_value = 0 /\ n_blocks = 0
    /\ pred = <<>> /\ lut_calls = 0 /\ join = NoJoin
    /\ ct = NoCrt /\ scalar = 0

\* what a step of a call in progress leaves alone
JoinFrame ==
    UNCHANGED <<key, condition, true_ct, false_ct, true_block, false_block, true_value,
                false_value, n_blocks, ct, scalar, pred, lut_calls>>

\* a step of closure t, which moves it to position p with the blocks c and
\* the unprocessed blocks d
TaskStep(t, p, c, d) ==
    /\ join' = [join EXCEPT !.pc[t] = p, !.ct[t] = c, !.todo[t] = d,
                            !.overlapped = @ \/ Midway(join, Other(t))]
    /\ UNCHANGED <<op, outcome, result>>
    /\ JoinFrame

\* if_then_else_parallelized on radix operands, up to the rayon::join of
\* unchecked_programmable_if_then_else_parallelized: the operands with
\* carries are cloned and propagated
StartIfThenElse ==
    /\ op = "none"
    /\ LET t1 == IF ~block_carries_are_empty(true_ct)
                 THEN full_propagate_parallelized(key, true_ct) ELSE true_ct
           f1 == IF ~block_carries_are_empty(false_ct)
                 THEN full_propagate_parallelized(key, false_ct) ELSE false_ct
       IN  join' = [NoJoin EXCEPT !.kind = "radix",
                                  !.pc = [t \in Tasks |-> "start"],
                                  !.ct = [t \in Tasks |-> IF t = "true_ct" THEN t1 ELSE f1],
                                  !.combine_todo = 1..Min2(Len(t1), Len(f1))]
    /\ op' = "if_then_else_parallelized" /\ outcome' = "running"
    /\ UNCHANGED result
    /\ JoinFrame

\* closure t clones its operand and enters zero_out_if: the assertion, the
\* short-circuit of a condition of degree 0, or the parallel iterator
ZeroOutIfEnter(t) ==
    /\ join.kind = "radix" /\ join.pc[t] = "start"
    /\ IF ~zero_out_if_precondition(condition)
       THEN /\ join' = [join EXCEPT !.kind = "panicked"]
            /\ outcome' = "panic"
            /\ UNCHANGED <<op, result>>
            /\ JoinFrame
       ELSE IF condition.degree = 0
       THEN TaskStep(t, "done",
                     zero_out_if(key, join.ct[t], condition, join_predicate(key, t)), {})
       ELSE TaskStep(t, "blocks", join.ct[t], zero_out_if_lut_blocks(join.ct[t], condition))

\* the parallel iterator of closure t applies the table to one of its blocks
ZeroOutIfBlock(t, i) ==
    /\ join.kind = "radix" /\ join.pc[t] = "blocks" /\ i \in join.todo[t]
    /\ TaskStep(t, "blocks",
                [join.ct[t] EXCEPT ![i] =
                    unchecked_apply_lookup_table_bivariate_assign(key, @, condition,
                        zero_out_if_lut(key, join_predicate(key, t)))],
                join.todo[t] \ {i})

\* the parallel iterator of closure t is exhausted: the closure returns
ZeroOutIfReturn(t) ==
    /\ join.kind = "radix" /\ join.pc[t] = "blocks" /\ join.todo[t] = {}
    /\ TaskStep(t, "done", join.ct[t], {})

\* after the join: one block of true_ct receives its block of false_ct and
\* goes through message_extract_assign (do_clean_message = true)
CombineBlock(i) ==
    /\ join.kind = "radix" /\ join_returned(join) /\ i \in join.combine_todo
    /\ join' = [join EXCEPT
                   !.ct["true_ct"][i] =
                       message_extract_assign(key,
                           unchecked_add_assign(@, join.ct["false_ct"][i])),
                   !.combine_todo = @ \ {i}]
    /\ UNCHANGED <<op, outcome, result>>
    /\ JoinFrame

\* the boolean if_then_else_parallelized, up to its rayon::join: the
\* assertion on the plaintext bits and the negation of the condition
StartBoolean ==
    /\ op = "none"
    /\ op' = "if_then_else_parallelized_boolean"
    /\ IF ~(ilog2(Capacity(key)) >= 2)
       THEN join' = [NoJoin EXCEPT !.kind = "panicked"] /\ outcome' = "panic"
       ELSE /\ join' = [NoJoin EXCEPT
                           !.kind = "boolean",
                           !.pc = [t \in Tasks |-> "mul"],
                           !.negated_cond = boolean_bitnot(key, condition),
                           !.ct = [t \in Tasks |->
                                      IF t = "true_ct" THEN <<condition>>
                                      ELSE <<boolean_bitnot(key, condition)>>],
                           !.combine_todo = {1}]
            /\ outcome' = "running"
    /\ UNCHANGED result
    /\ JoinFrame

\* a closure of the boolean call: unchecked_scalar_mul(cond, 2), then
\* unchecked_add_assign of its operand, then the table zero_lut
BooleanTaskStep(t) ==
    /\ join.kind = "boolean" /\ join.pc[t] # "done"
    /\ LET block == join.ct[t][1]
           operand == IF t = "true_ct" THEN true_block ELSE false_block
       IN  IF join.pc[t] = "mul"
           THEN TaskStep(t, "add", <<unchecked_scalar_mul(block, 2)>>, {})
           ELSE IF join.pc[t] = "add"
           THEN TaskStep(t, "lut", <<unchecked_add_assign(block, operand)>>, {})
           ELSE TaskStep(t, "done", <<apply_lookup_table_assign(key, block, zero_lut(key))>>, {})

\* after the join: lhs += rhs, then the table clean_lut
CombineBoolean ==
    /\ join.kind = "boolean" /\ join_returned(join) /\ join.combine_todo = {1}
    /\ join' = [join EXCEPT
                   !.ct["true_ct"][1] =
                       apply_lookup_table_assign(key,
                           unchecked_add_assign(@, join.ct["false_ct"][1]), clean_lut(key)),
                   !.combine_todo = {}]
    /\ UNCHANGED <<op, outcome, result>>
    /\ JoinFrame

\* the call returns the blocks of true_ct
JoinCallReturn ==
    /\ join.kind \in {"radix", "boolean"}
    /\ join_returned(join) /\ join.combine_todo = {}
    /\ result' = join.ct["true_ct"] /\ outcome' = "ok"
    /\ join' = [join EXCEPT !.kind = "returned"]
    /\ UNCHANGED op
    /\ JoinFrame

NextJoin ==
    \/ StartIfThenElse
    \/ \E t \in Tasks : ZeroOutIfEnter(t)
    \/ \E t \in Tasks : \E i \in 1..MaxBlocks : ZeroOutIfBlock(t, i)
    \/ \E t \in Tasks : ZeroOutIfReturn(t)
    \/ \E i \in 1..MaxBlocks : CombineBlock(i)
    \/ StartBoolean
    \/ \E t \in Tasks : BooleanTaskStep(t)
    \/ CombineBoolean
    \/ JoinCallReturn

SpecJoin == InitJoin /\ [][NextJoin]_vars

(***************************************************************************)
(* Properties of the CRT scalar addition.                                  *)
(***************************************************************************)
CrtAssignOps == {"unchecked_crt_scalar_add_assign", "checked_crt_scalar_add_assign",
                 "smart_crt_scalar_add_assign"}
CrtNewOps == {"unchecked_crt_scalar_add", "checked_crt_scalar_add", "smart_crt_scalar_add"}
CrtSmartOps == {"smart_crt_scalar_add", "smart_crt_scalar_add_assign"}

\* the ciphertext a CRT call produced: the operand itself for the _assign
\* entry points, the returned blocks over the operand's basis for the others
CrtOutput(operand, blocks, o) ==
    IF o \in CrtAssignOps THEN operand ELSE [blocks |-> blocks, moduli |-> operand.moduli]

C7_CheckedFailureLeavesOperand ==
    [][(op' \in {"checked_crt_scalar_add", "checked_crt_scalar_add_assign"}
          /\ ~is_crt_scalar_add_possible(key, ct, scalar')) =>
        (outcome' = "err" /\ ct' = ct /\ result' = <<>>)]_vars

\* C7 witness: checked_crt_scalar_add_assign refused an addition that the
\* first channel could take (a non-zero amount) and the second could not
C7_Witness ==
    /\ op = "checked_crt_scalar_add_assign" /\ outcome = "err"
    /\ Len(ct.blocks) = 2
    /\ scalar % ct.moduli[1] > 0
    /\ is_scalar_add_possible(key, ct.blocks[1].degree, scalar % ct.moduli[1])
    /\ ~is_scalar_add_possible(key, ct.blocks[2].degree, scalar % ct.moduli[2])

\* C8: the smart CRT scalar additions never fail from capacity: the check
\* that follows the refresh succeeds, so the unwrap never panics.
C8_SmartNeverPanics ==
    op \in CrtSmartOps => outcome = "ok"

\* C11 (as claimed): is_crt_scalar_add_possible returns Ok iff, for every
\* channel i, degree_i + (scalar mod modulus_i) is below the channel's own
\* message_modulus_i * carry_modulus_i.
C11_PossibleIffChannelCapacity ==
    op = "is_crt_scalar_add_possible" =>
        (outcome = "ok" <=>
            \A i \in DOMAIN ct.blocks :
                ct.blocks[i].degree + (scalar % ct.moduli[i])
                    < ct.blocks[i].message_modulus * ct.blocks[i].carry_modulus)

\* C11 (amended): is_crt_scalar_add_possible returns Ok iff, for every channel
\* i, degree_i + (scalar mod modulus_i) is below the server key's
\* message_modulus * carry_modulus; it returns the CheckError otherwise, and
\* leaves ct as it was.
C11_PossibleIffKeyCapacity ==
    [][op' = "is_crt_scalar_add_possible" =>
        /\ ct' = ct
        /\ outcome' \in {"ok", "err"}
        /\ outcome' = "ok" <=>
              \A i \in DOMAIN ct.blocks :
                  ct.blocks[i].degree + (scalar' % ct.moduli[i]) < Capacity(key)]_vars

\* C11 witness: the check fails on the second channel only, for a scalar that
\* is reduced differently in the two channels
C11_Witness ==
    /\ op = "is_crt_scalar_add_possible" /\ outcome = "err"
    /\ Len(ct.blocks) = 2
    /\ scalar % ct.moduli[1] # scalar % ct.moduli[2]
    /\ ct.blocks[1].degree + (scalar % ct.moduli[1]) < Capacity(key)
    /\ ~(ct.blocks[2].degree + (scalar % ct.moduli[2]) < Capacity(key))

(***************************************************************************)
(* Properties of the CMUX entry points.                                    *)
(***************************************************************************)
CtCtOps == {"if_then_else_parallelized", "select_parallelized", "cmux_parallelized"}
ScalarOps == {"scalar_if_then_else_parallelized", "scalar_cmux_parallelized",
              "scalar_select_parallelized"}

\* the digits, least significant first, of x in base b over n blocks
Digits(x, b, n) == [i \in 1..n |-> DigitOf(x, b, i)]

\* the plaintext digits a radix ciphertext holds
Vals(c) == [i \in DOMAIN c |-> c[i].val]

\* C1: for a selector encrypting 0 or 1 (a BooleanBlock, of degree <= 1) and
\* two radix operands of the same block count, if_then_else_parallelized and
\* its aliases select_parallelized and cmux_parallelized return a ciphertext
\* of that block count that decrypts to the value of true_ct when the selector
\* is 1 and to the value of false_ct when it is 0, with or without carries in
\* the operands.
C1_SelectDecrypts ==
    (op \in CtCtOps /\ condition.degree <= 1 /\ Len(true_ct) = Len(false_ct)) =>
        /\ outcome = "ok"
        /\ Len(result) = Len(true_ct)
        /\ DecryptRadix(key, result) =
              IF condition.val = 1 THEN DecryptRadix(key, true_ct)
              ELSE DecryptRadix(key, false_ct)

\* C1 witness: a selection of the true operand, which entered with a carry and
\* differs in value from the false operand
C1_Witness ==
    /\ op = "select_parallelized" /\ outcome = "ok"
    /\ condition.val = 1
    /\ Len(true_ct) = 2 /\ Len(false_ct) = 2
    /\ ~block_carries_are_empty(true_ct)
    /\ ~block_carries_are_empty(false_ct)
    /\ DecryptRadix(key, true_ct) # DecryptRadix(key, false_ct)
    /\ DecryptRadix(key, result) = DecryptRadix(key, true_ct)

\* C2: whenever message_modulus * carry_modulus >= 4, the boolean CMUX
\* returns, for each of the 8 combinations of (cond, a, b), a block that
\* decrypts to a when cond is 1 and to b when cond is 0.
C2_BooleanSelectDecrypts ==
    (op = "if_then_else_parallelized_boolean" /\ Capacity(key) >= 4) =>
        /\ outcome = "ok"
        /\ Len(result) = 1
        /\ result[1].val = IF condition.val = 1 THEN true_block.val ELSE false_block.val

\* C2 witness: the selector is 0, a is 0 and b is 1, and b is returned
C2_Witness ==
    /\ op = "if_then_else_parallelized_boolean" /\ outcome = "ok"
    /\ condition.val = 0 /\ condition.payload # <<>>
    /\ true_block.val = 0 /\ false_block.val = 1
    /\ result[1].val = 1

C5_ScalarScalarSelectDigits ==
    op \in ScalarOps =>
        /\ outcome = "ok"
        /\ Len(result) = n_blocks
        /\ Vals(result) =
              IF condition.val = 1 THEN Digits(true_value, key.message_modulus, n_blocks)
              ELSE Digits(false_value, key.message_modulus, n_blocks)

\* C5 witness: three blocks, more than one many-output table holds, and the
\* true scalar 5 = 101b is selected
C5_Witness ==
    /\ op = "scalar_cmux_parallelized"
    /\ key.message_modulus = 2 /\ key.carry_modulus = 2
    /\ condition.val = 1
    /\ n_blocks = 3 /\ true_value = 5 /\ false_value = 2
    /\ Vals(result) = <<1, 0, 1>>

\* C9: the non-assigning, non-smart CMUX entry points (ciphertext/ciphertext
\* and its aliases, ciphertext/scalar, scalar/ciphertext, boolean) leave the
\* caller's selector and operands, payload and degree, as they were.
C9_OperandsNotMutated ==
    [][op' \in (CtCtOps \cup {"if_then_else_parallelized_ct_scalar",
                              "if_then_else_parallelized_scalar_ct",
                              "if_then_else_parallelized_boolean"}) =>
        /\ condition' = condition
        /\ true_ct' = true_ct /\ false_ct' = false_ct
        /\ true_block' = true_block /\ false_block' = false_block]_vars

\* C9 witness: if_then_else_parallelized returned and both operands still
\* hold their carries
C9_Witness ==
    /\ op = "if_then_else_parallelized" /\ outcome = "ok"
    /\ Len(true_ct) = 2 /\ Len(false_ct) = 2
    /\ ~carry_is_empty(true_ct[1]) /\ ~carry_is_empty(false_ct[2])
    /\ true_ct[1].payload = <<"true_ct", "1">>

C12_MismatchedBlockCountsRejected ==
    (op \in (CtCtOps \cup {"smart_if_then_else_parallelized"})
       /\ Len(true_ct) # Len(false_ct)) =>
        outcome = "panic"

(***************************************************************************)
(* Properties of zero_out_if.                                              *)
(***************************************************************************)
ZeroOps == {"zero_out_if", "zero_out_if_condition_equals", "zero_out_if_condition_is_false"}

\* C13: after zero_out_if(ct, condition_block, pred) on a condition block of
\* degree < message_modulus encrypting v, ct has as many blocks as before and
\* every block decrypts to 0 if pred(v) is true and to its previous value
\* otherwise (short-circuit, skipped blocks and constant predicates included).
C13_ZeroOutIfZeroesOrKeeps ==
    [][(op' \in ZeroOps /\ outcome' = "ok") =>
        /\ condition.degree < condition.message_modulus
        /\ Len(true_ct') = Len(true_ct)
        /\ \A i \in DOMAIN true_ct :
              true_ct'[i].val = IF pred'[condition.val] THEN 0 ELSE true_ct[i].val]_vars

\* C13 witness: a condition encrypting 2 with a predicate that holds on 2 and
\* not on 0; two blocks, both 0 after the call, one of them bootstrapped
C13_Witness ==
    /\ op = "zero_out_if" /\ outcome = "ok"
    /\ condition.val = 2 /\ condition.degree = 3
    /\ pred[2] /\ ~pred[0]
    /\ Len(true_ct) = 2
    /\ \A i \in DOMAIN true_ct : true_ct[i].val = 0
    /\ \E i \in DOMAIN true_ct : Len(true_ct[i].payload) > 0 /\ Head(true_ct[i].payload) = "pbs"

\* C14: zero_out_if evaluates no table when condition_block.degree = 0;
\* otherwise it evaluates the bivariate table once per block of non-zero
\* degree and leaves the blocks of degree 0 untouched.
C14_ZeroOutIfBootstrapCount ==
    [][(op' \in ZeroOps /\ outcome' = "ok") =>
        /\ lut_calls' = IF condition.degree = 0 THEN 0
                        ELSE Cardinality({i \in DOMAIN true_ct : true_ct[i].degree # 0})
        /\ condition.degree = 0 =>
              true_ct' \in {true_ct, create_trivial_zero_assign_radix(key, true_ct)}
        /\ condition.degree # 0 =>
              \A i \in DOMAIN true_ct :
                  IF true_ct[i].degree = 0 THEN true_ct'[i] = true_ct[i]
                  ELSE true_ct'[i].payload \in {<<>>, <<"pbs">> \o true_ct[i].payload
                                                        \o <<"&">> \o condition.payload}]_vars

\* C14 witness: two blocks under a condition of non-zero degree, one of
\* degree 0 that was skipped and one that went through the table
C14_Witness ==
    /\ op = "zero_out_if" /\ outcome = "ok"
    /\ condition.degree # 0
    /\ Len(true_ct) = 2
    /\ lut_calls = 1
    /\ true_ct[1].degree = 0 /\ true_ct[1].payload = <<"ct", "1">>
    /\ Head(true_ct[2].payload) = "pbs"

\* C15: zero_out_if with a predicate that is false on every input leaves ct
\* bit-identical (payload and degree of every block), whatever the condition
\* block, one of non-zero degree included.
C15_FalsePredicateLeavesCtIdentical ==
    [][(op' = "zero_out_if" /\ outcome' = "ok" /\ \A x \in DOMAIN pred' : ~pred'[x]) =>
        true_ct' = true_ct]_vars

(***************************************************************************)
(* Properties of the batching of scalar_if_then_else_parallelized.         *)
(***************************************************************************)
\* C16: scalar_if_then_else_parallelized splits the n per-block functions, in
\* order, into ceil(n / max_functions) groups of 1..max_functions functions,
\* max_functions = (message_modulus * carry_modulus) / 2, evaluates one
\* many-output table per group, and returns, block for block, the plaintext
\* and degree that function i evaluated alone through a single-output table
\* on the selector yields.
C16_ChunkedEqualsIndividual ==
    op \in ScalarOps =>
        LET max_functions == Capacity(key) \div 2
            fns  == owned_fn_buffer(key, true_value, false_value, n_blocks)
            luts == scalar_if_then_else_luts(key, true_value, false_value, n_blocks)
            single(i) == apply_lookup_table_assign(key, condition,
                             [x \in LutInputs(key) |-> ApplyFn(fns[i], x)])
        IN  /\ Len(luts) = (n_blocks + max_functions - 1) \div max_functions
            /\ \A g \in DOMAIN luts : Len(luts[g]) \in 1..max_functions
            /\ Flatten(luts) = fns
            /\ lut_calls = Len(luts)
            /\ Len(result) = n_blocks
            /\ \A i \in 1..n_blocks :
                  /\ result[i].val = single(i).val
                  /\ result[i].degree = single(i).degree

\* C16 witness: three functions with at most two per table: two tables, the
\* second holding one function, and three blocks that are not all equal
C16_Witness ==
    /\ op = "scalar_if_then_else_parallelized"
    /\ Capacity(key) \div 2 = 2
    /\ n_blocks = 3 /\ lut_calls = 2
    /\ condition.val = 0 /\ condition.payload # <<>>
    /\ Vals(result) = <<0, 1, 0>>

(***************************************************************************)
(* Properties of the two tasks of the CMUX calls.                          *)
(***************************************************************************)
\* the call followed step by step has ended
JoinCallEnded == join.kind \in {"returned", "panicked"}

\* what the call computes when its steps are taken in program order
JoinSequential ==
    IF op = "if_then_else_parallelized"
    THEN if_then_else_parallelized(key, condition, true_ct, false_ct)
    ELSE if_then_else_parallelized_boolean(key, condition, true_block, false_block)

\* C17: in the ciphertext/ciphertext CMUX and in the boolean CMUX, (1) a
\* step of a task writes only the value that task owns, and no step of the
\* call writes the caller's operands; (2) no block is combined before both
\* tasks have completed; (3) whatever the interleaving of the two tasks and
\* the order of the blocks, the call ends with the outcome and the
\* ciphertext of the program-order execution.
C17_TasksIndependentAndJoined ==
    /\ [](JoinCallEnded =>
            /\ outcome = JoinSequential.outcome
            /\ result = JoinSequential.result)
    /\ [][join.kind \in {"radix", "boolean"} =>
            /\ <<condition, true_ct, false_ct, true_block, false_block>>' =
                   <<condition, true_ct, false_ct, true_block, false_block>>
            /\ join'.combine_todo # join.combine_todo =>
                   /\ \A t \in Tasks : join.pc[t] = "done"
                   /\ join'.ct["false_ct"] = join.ct["false_ct"]
            /\ join'.combine_todo = join.combine_todo =>
                   \A t \in Tasks :
                       join'.ct[t] # join.ct[t] =>
                           /\ join.pc[t] # "done"
                           /\ join'.ct[Other(t)] = join.ct[Other(t)]
                           /\ join'.pc[Other(t)] = join.pc[Other(t)]]_vars

\* C17 witness: a ciphertext/ciphertext call on two blocks, with a condition
\* of non-zero degree, has returned after a run in which a task took a step
\* while the other was midway
C17_Witness ==
    /\ op = "if_then_else_parallelized" /\ outcome = "ok"
    /\ join.kind = "returned" /\ join.overlapped
    /\ condition.degree = 1
    /\ Len(result) = 2
    /\ DecryptRadix(key, true_ct) # DecryptRadix(key, false_ct)

(***************************************************************************)
(* Properties of the smart CMUX and of the blocks' degrees.                *)
(***************************************************************************)
\* C18: smart_if_then_else_parallelized leaves a selector whose carry is
\* empty, and a true or false ciphertext whose block carries are all empty,
\* as they were, and normalizes in place an operand that has a carry: after
\* the call its carries are empty and it still decrypts to the same value.
C18_SmartRefreshesOnlyOffending ==
    [][op' = "smart_if_then_else_parallelized" =>
        /\ IF carry_is_empty(condition) THEN condition' = condition
           ELSE /\ carry_is_empty(condition')
                /\ condition'.val = condition.val % key.message_modulus
        /\ IF block_carries_are_empty(true_ct) THEN true_ct' = true_ct
           ELSE /\ block_carries_are_empty(true_ct')
                /\ DecryptRadix(key, true_ct') = DecryptRadix(key, true_ct)
        /\ IF block_carries_are_empty(false_ct) THEN false_ct' = false_ct
           ELSE /\ block_carries_are_empty(false_ct')
                /\ DecryptRadix(key, false_ct') = DecryptRadix(key, false_ct)]_vars

\* C18 witness: the smart call returned having refreshed true_ct (two
\* blocks) and left the selector and false_ct, whose carries were empty, as
\* the client encrypted them
C18_Witness ==
    /\ op = "smart_if_then_else_parallelized" /\ outcome = "ok"
    /\ Len(true_ct) = 2 /\ Len(false_ct) = 2
    /\ \A i \in 1..2 : Head(true_ct[i].payload) = "pbs"
    /\ \A i \in 1..2 : false_ct[i].payload = <<"false_ct", ToString(i)>>
    /\ condition.payload = <<"condition">>

\* C19: with do_clean_message = true (unchecked_if_then_else_parallelized,
\* if_then_else_parallelized and its aliases, smart_if_then_else_parallelized)
\* every block of the returned ciphertext has degree < message_modulus, for
\* every selector and every pair of operands.
C19_ResultCarriesEmpty ==
    (op \in (CtCtOps \cup {"unchecked_if_then_else_parallelized",
                            "smart_if_then_else_parallelized"}) /\ outcome = "ok") =>
        \A i \in DOMAIN result : result[i].degree < key.message_modulus

\* C19 witness: the unchecked call returned two blocks of degree
\* message_modulus - 1 from a false operand whose second block had degree
\* message_modulus, under a key with carry space
C19_Witness ==
    /\ op = "unchecked_if_then_else_parallelized" /\ outcome = "ok"
    /\ key.carry_modulus > 1
    /\ condition.degree = 1
    /\ Len(true_ct) = 2 /\ Len(false_ct) = 2
    /\ false_ct[2].degree = key.message_modulus
    /\ \A i \in 1..2 : result[i].degree = key.message_modulus - 1

(***************************************************************************)
(* The blocks handed to a lookup table by each CMUX variant.               *)
(***************************************************************************)
\* ciphertext/ciphertext, on operands without carries: the blocks and the
\* condition handed to the table of zero_out_if by the two tasks, and the
\* sums handed to message_extract_assign
lut_operands_if_then_else(k, c, t, f) ==
    LET zt == zero_out_if(k, t, c, [x \in LutInputs(k) |-> ~(x = 1)])
        zf == zero_out_if(k, f, c, [x \in LutInputs(k) |-> x = 1])
    IN  {t[i] : i \in zero_out_if_lut_blocks(t, c)}
        \cup {f[i] : i \in zero_out_if_lut_blocks(f, c)}
        \cup (IF zero_out_if_lut_blocks(t, c) \cup zero_out_if_lut_blocks(f, c) = {}
              THEN {} ELSE {c})
        \cup {unchecked_add_assign(zt[i], zf[i]) : i \in 1..Min2(Len(zt), Len(zf))}

\* ciphertext/scalar: 2 * block + condition
lut_operands_ct_scalar(c, t) ==
    {unchecked_add_assign(unchecked_scalar_mul(t[i], 2), c) : i \in DOMAIN t}

\* boolean: 2 * cond + value in the two tasks, then lhs + rhs
lut_operands_boolean(k, c, t, f) ==
    LET negated_cond == boolean_bitnot(k, c)
        lhs == unchecked_add_assign(unchecked_scalar_mul(c, 2), t)
        rhs == unchecked_add_assign(unchecked_scalar_mul(negated_cond, 2), f)
    IN  {lhs, rhs,
         unchecked_add_assign(apply_lookup_table_assign(k, lhs, zero_lut(k)),
                              apply_lookup_table_assign(k, rhs, zero_lut(k)))}

\* the blocks the last call of the caller handed to a table
LutOperands ==
    IF op \in (CtCtOps \cup {"unchecked_if_then_else_parallelized",
                              "smart_if_then_else_parallelized"})
    THEN lut_operands_if_then_else(key, condition, true_ct, false_ct)
    ELSE IF op = "if_then_else_parallelized_ct_scalar"
    THEN lut_operands_ct_scalar(condition, true_ct)
    ELSE IF op = "if_then_else_parallelized_scalar_ct"
    THEN lut_operands_ct_scalar(boolean_bitnot(key, condition), false_ct)
    ELSE IF op = "if_then_else_parallelized_boolean"
    THEN lut_operands_boolean(key, condition, true_block, false_block)
    ELSE {}

\* the entry preconditions of the CMUX variants: operands without carries and
\* a selector of degree <= 1 (the entry assertions having passed: the call
\* returned)
CmuxPreconditions ==
    /\ outcome = "ok"
    /\ condition.degree <= 1
    /\ block_carries_are_empty(true_ct) /\ block_carries_are_empty(false_ct)
    /\ carry_is_empty(true_block) /\ carry_is_empty(false_block)

\* C20: in every CMUX variant, whenever the entry preconditions hold, every
\* block handed to a lookup table has degree (and so value) strictly below
\* message_modulus * carry_modulus.
C20_LutOperandsBelowCapacity ==
    CmuxPreconditions =>
        \A b \in LutOperands : b.degree < Capacity(key) /\ b.val <= b.degree

====
